---- MODULE Spec2Model ----
(***************************************************************************)
(* Model of map_tx_coordinates.py: the CIGARString class (the parser of    *)
(* the CIGAR encoding, get_tx_length and the map_coordinate walk).         *)
(*                                                                         *)
(* A CIGARString object is a parsed region list `cigar`; a transcript      *)
(* record adds the genomic coordinate `mapping_start_pos` at which the     *)
(* alignment starts.  Spec models one such object and the calls of         *)
(* map_coordinate made on it, one statement group of the method per        *)
(* action.  ParserSpec models __parse_cigar_str on raw strings, RunSpec    *)
(* models run (with get_coordinate_mapping) on a queries file, and         *)
(* RepeatSpec adds an observer that compares calls on one object.          *)
(***************************************************************************)
EXTENDS Integers, Sequences, FiniteSets, TLC

VARIABLES
    cigar,              \* self.cigar: sequence of <<length, type>> regions
    cigar_str,          \* self.cigar_str: the encoding the object was built from
    mapping_start_pos,  \* argument of map_coordinate (the record's start)
    tx_pos,             \* argument of map_coordinate
    pc,                 \* position in map_coordinate
    w,                  \* the locals of map_coordinate (a record)
    tx_length,          \* value self.get_tx_length() returned to the current call, or -1
    iters,              \* loop bodies executed by the current call
    warned,             \* warnings.warn was called by the current call
    outcome,            \* "none", "returned" or the exception raised
    result,             \* the value returned, or -1 while there is none
    s,                  \* argument of __parse_cigar_str
    ppc,                \* position in __parse_cigar_str
    chars_list,         \* local of __parse_cigar_str
    int_list,           \* local of __parse_cigar_str
    parsed,             \* the list __parse_cigar_str returned
    parse_outcome,      \* "none", "returned" or the exception it raised
    queries_file,       \* run: the lines of the queries file
    lines_read,         \* run: lines the for loop has taken from queries_file
    rpc,                \* position in run
    fields,             \* run: line.strip().split('\t') of the current line
    chrom,              \* run: chrom_id, chrom_pos of the current line
    out_file,           \* run: the lines written to the output file
    run_outcome,        \* "running", "returned" or the exception run raised
    memo                \* observer: an earlier call on the object, to compare with

mapVars == <<cigar, cigar_str, mapping_start_pos, tx_pos, pc, w, tx_length, iters, warned, outcome, result>>
parseVars == <<s, ppc, chars_list, int_list, parsed, parse_outcome>>
runVars == <<queries_file, lines_read, rpc, fields, chrom, out_file, run_outcome>>
vars == <<cigar, cigar_str, mapping_start_pos, tx_pos, pc, w, tx_length, iters, warned, outcome, result,
          s, ppc, chars_list, int_list, parsed, parse_outcome,
          queries_file, lines_read, rpc, fields, chrom, out_file, run_outcome,
          memo>>

(***************************************************************************)
(* Bounds of the model.                                                    *)
(***************************************************************************)
MaxRegions == 3       \* regions of an encoding of M, D and I regions
MaxOtherRegions == 2  \* regions of an encoding of regions of any type
MaxFairRegions == 2   \* regions of an encoding under the fair specification
MaxLen == 2           \* length of a region
MaxStrLen == 4        \* characters of a string given to the parser
MaxIters == 30        \* loop bodies one call may run in the model
MaxQueries == 3       \* lines of a queries file
MaxRepeatRegions == 1 \* regions of an encoding whose calls are compared

NoValue == "none"

(***************************************************************************)
(* Region lists.  A region is <<length, type>>, as the parser zips them.   *)
(***************************************************************************)
MDI == {"M", "D", "I"}

\* the letters of the split pattern: the types a parsed region can have
\* ("=" is no letter, so line 22 never collects it)
Types == {"M", "D", "I", "S", "H", "X"}

Lengths == 0..MaxLen

Regions == Lengths \X MDI

AnyRegions == Lengths \X Types

RECURSIVE SeqsUpTo(_, _)
SeqsUpTo(S, n) ==
    IF n = 0 THEN {<<>>}
    ELSE LET shorter == SeqsUpTo(S, n - 1)
         IN  shorter \cup {Append(q, x) : q \in {t \in shorter : Len(t) = n - 1}, x \in S}

BoundedEncodings ==
    SeqsUpTo(Regions, MaxRegions) \cup SeqsUpTo(AnyRegions, MaxOtherRegions)

\* The encodings the documentation works through, with their mapping starts.
Example8M == <<<<8, "M">>, <<7, "D">>, <<6, "M">>, <<2, "I">>, <<2, "M">>, <<11, "D">>, <<7, "M">>>>
Example2M2I2M == <<<<2, "M">>, <<2, "I">>, <<2, "M">>>>
Example5D10M == <<<<5, "D">>, <<10, "M">>>>

\* An encoding whose walk enters a region of another type and goes on.
Example2M1S3M == <<<<2, "M">>, <<1, "S">>, <<3, "M">>>>

Starts == {0, 10}

Records ==
    (BoundedEncodings \X Starts)
        \cup {<<Example8M, 3>>, <<Example2M2I2M, 10>>, <<Example5D10M, 0>>,
              <<Example2M1S3M, 0>>}

\* the records the fair specification starts from: encodings of Match,
\* Deletion and Insertion regions
MDIRecords ==
    (SeqsUpTo(Regions, MaxFairRegions) \X Starts)
        \cup {<<Example8M, 3>>, <<Example2M2I2M, 10>>, <<Example5D10M, 0>>}

(***************************************************************************)
(* get_tx_length: sum of the lengths of the M and I regions.               *)
(***************************************************************************)
RECURSIVE sum(_)
sum(xs) == IF xs = <<>> THEN 0 ELSE Head(xs) + sum(Tail(xs))

InMI(region) == region[2] \in {"M", "I"}

\* mutant: every region counted, whatever its type
get_tx_length_AllRegions(c) == sum([i \in 1..Len(c) |-> c[i][1]])

get_tx_length(c) ==
    LET kept == SelectSeq(c, InMI)
        region_lengths == [i \in 1..Len(kept) |-> kept[i][1]]
    IN  sum(region_lengths)

(***************************************************************************)
(* map_coordinate.                                                         *)
(***************************************************************************)
NoLocals ==
    [curr_pos |-> 0, curr_region_length |-> 0, curr_region_type |-> NoValue,
     region_ix |-> 0, within_region_ix |-> 0, tx_ix |-> 0,
     reached_end_of_region |-> FALSE]

\* mutant: the upper bound off by one
OutOfBounds_OffByOne(c, p) == p < 0 \/ p > get_tx_length(c)

\* line 51: the bounds test
OutOfBounds(c, p) == p < 0 \/ p >= get_tx_length(c)

\* lines 56-64 (region_ix is 0-based as in the source; cigar[0] is c[1])
InitLocals(c, start) ==
    [curr_pos |-> start,
     curr_region_length |-> c[1][1],
     curr_region_type |-> c[1][2],
     region_ix |-> 0,
     within_region_ix |-> 0,
     tx_ix |-> 0,
     reached_end_of_region |-> FALSE]

\* mutant: the genomic position not advanced over a match base
MatchBranch_NoAdvance(l) ==
    LET ix == l.within_region_ix + 1
    IN  [l EXCEPT !.within_region_ix = ix,
                  !.reached_end_of_region =
                      IF ix = l.curr_region_length - 1 THEN TRUE ELSE @]

\* lines 70-74
MatchBranch(l) ==
    LET ix == l.within_region_ix + 1
    IN  [l EXCEPT !.curr_pos = @ + 1,
                  !.within_region_ix = ix,
                  !.reached_end_of_region =
                      IF ix = l.curr_region_length - 1 THEN TRUE ELSE @]

\* mutant: the deletion crossed without the extra step
DeletionBranch_NoStep(l) ==
    [l EXCEPT !.curr_pos = @ + l.curr_region_length,
              !.reached_end_of_region = TRUE]

\* mutant: the deletion crossed with the wrong sign
DeletionBranch_Backwards(l) ==
    [l EXCEPT !.curr_pos = @ - (l.curr_region_length + 1),
              !.reached_end_of_region = TRUE]

\* lines 75-77
DeletionBranch(l) ==
    [l EXCEPT !.curr_pos = @ + l.curr_region_length + 1,
              !.reached_end_of_region = TRUE]

\* mutant: the genomic position advanced by the length of the insertion
InsertionBranch_PerBase(l) ==
    [l EXCEPT !.tx_ix = @ + l.curr_region_length,
              !.curr_pos = @ + l.curr_region_length,
              !.reached_end_of_region = TRUE]

\* lines 78-82
InsertionBranch(l) ==
    [l EXCEPT !.tx_ix = @ + l.curr_region_length,
              !.curr_pos = @ + 1,
              !.reached_end_of_region = TRUE]

\* line 85: the test that guards warnings.warn, on the locals after lines 80-82
SkippedOver(l, p) == p <= l.tx_ix

\* mutant: a region of another type walked like a match
Branch_OtherAsMatch(l) ==
    IF l.curr_region_type = "D" THEN DeletionBranch(l)
    ELSE IF l.curr_region_type = "I" THEN InsertionBranch(l)
    ELSE MatchBranch(l)

\* lines 70-82: the branch on the type of the current region
Branch(l) ==
    IF l.curr_region_type = "M" THEN MatchBranch(l)
    ELSE IF l.curr_region_type = "D" THEN DeletionBranch(l)
    ELSE IF l.curr_region_type = "I" THEN InsertionBranch(l)
    ELSE l

\* lines 91-97
NextRegion(l, c) ==
    IF l.reached_end_of_region
    THEN LET ix == l.region_ix + 1
         IN  IF ix < Len(c)
             THEN [l EXCEPT !.region_ix = ix,
                            !.curr_region_length = c[ix + 1][1],
                            !.curr_region_type = c[ix + 1][2],
                            !.within_region_ix = 0,
                            !.reached_end_of_region = FALSE]
             ELSE [l EXCEPT !.region_ix = ix]
    ELSE l

\* lines 93-95: the indices of self.cigar one execution of the loop body
\* reads, from locals l
RegionsRead(l, c) ==
    IF Branch(l).reached_end_of_region /\ Branch(l).region_ix + 1 < Len(c)
    THEN {Branch(l).region_ix + 1}
    ELSE {}

\* mutant: the transcript index not incremented
Tick_Forgotten(l) == l

\* line 99
Tick(l) == [l EXCEPT !.tx_ix = @ + 1]

\* lines 69-99: one execution of the loop body
Body(l, c) == Tick(NextRegion(Branch(l), c))

\* lines 85-88: whether this execution of the loop body warns
BodyWarns(l, p) == l.curr_region_type = "I" /\ SkippedOver(Branch(l), p)

\* mutant: the loop test inclusive
LoopTest_Inclusive(l, p) == l.tx_ix <= p

\* line 68: the loop test
LoopTest(l, p) == l.tx_ix < p

\* lines 68-101 run to the end from locals l: the locals at the return
RECURSIVE RunLoop(_, _, _)
RunLoop(l, c, p) == IF LoopTest(l, p) THEN RunLoop(Body(l, c), c, p) ELSE l

\* The value map_coordinate(p, start) returns on c, for p in bounds.
Returned(c, p, start) == RunLoop(InitLocals(c, start), c, p).curr_pos

Queries(c) == -1 .. (get_tx_length(c) + 1)

DigitChar(d) ==
    CASE d = 0 -> "0" [] d = 1 -> "1" [] d = 2 -> "2" [] d = 3 -> "3"
      [] d = 4 -> "4" [] d = 5 -> "5" [] d = 6 -> "6" [] d = 7 -> "7"
      [] d = 8 -> "8" [] d = 9 -> "9"

\* str(n) of an integer
RECURSIVE str(_)
str(n) ==
    IF n < 0 THEN <<"-">> \o str(-n)
    ELSE IF n < 10 THEN <<DigitChar(n)>>
    ELSE str(n \div 10) \o <<DigitChar(n % 10)>>

\* the encoding a region list was parsed from: <length><type> per region
RECURSIVE cigar_str_of(_)
cigar_str_of(c) ==
    IF c = <<>> THEN <<>>
    ELSE str(Head(c)[1]) \o <<Head(c)[2]>> \o cigar_str_of(Tail(c))

\* the object of a record of RS, before any call
MapInitOf(RS) ==
    /\ \E r \in RS : cigar = r[1] /\ mapping_start_pos = r[2]
    /\ cigar_str = cigar_str_of(cigar)
    /\ tx_pos = 0
    /\ pc = "idle"
    /\ w = NoLocals
    /\ tx_length = -1
    /\ iters = 0
    /\ warned = FALSE
    /\ outcome = NoValue
    /\ result = -1

MapInit == MapInitOf(Records)

\* a caller calls map_coordinate(p, mapping_start_pos) on the object
Call ==
    /\ pc \in {"idle", "done"}
    /\ \E p \in Queries(cigar) : tx_pos' = p
    /\ pc' = "check"
    /\ w' = NoLocals
    /\ tx_length' = -1
    /\ iters' = 0
    /\ warned' = FALSE
    /\ outcome' = NoValue
    /\ result' = -1
    /\ UNCHANGED <<cigar, cigar_str, mapping_start_pos>>
    /\ UNCHANGED parseVars
    /\ UNCHANGED runVars
    /\ UNCHANGED memo

\* variant: the bounds check of lines 51-53 lets every position through
CheckBounds_Skipped ==
    /\ pc = "check"
    /\ tx_length' = get_tx_length(cigar)
    /\ outcome' = outcome
    /\ pc' = "init"
    /\ UNCHANGED <<cigar, cigar_str, mapping_start_pos, tx_pos, w, iters, warned, result>>
    /\ UNCHANGED parseVars
    /\ UNCHANGED runVars
    /\ UNCHANGED memo

\* lines 51-53: get_tx_length() is called by the test, or, when tx_pos < 0
\* cuts the test short, by the message of the exception
CheckBounds ==
    /\ pc = "check"
    /\ tx_length' = get_tx_length(cigar)
    /\ IF OutOfBounds(cigar, tx_pos)
       THEN /\ outcome' = "ValueError"
            /\ pc' = "done"
       ELSE /\ outcome' = outcome
            /\ pc' = "init"
    /\ UNCHANGED <<cigar, cigar_str, mapping_start_pos, tx_pos, w, iters, warned, result>>
    /\ UNCHANGED parseVars
    /\ UNCHANGED runVars
    /\ UNCHANGED memo

\* lines 56-64; cigar[0] on an empty list raises IndexError
InitWalk ==
    /\ pc = "init"
    /\ IF Len(cigar) = 0
       THEN /\ outcome' = "IndexError"
            /\ pc' = "done"
            /\ w' = w
       ELSE /\ w' = InitLocals(cigar, mapping_start_pos)
            /\ pc' = "loop"
            /\ outcome' = outcome
    /\ UNCHANGED <<cigar, cigar_str, mapping_start_pos, tx_pos, tx_length, iters, warned, result>>
    /\ UNCHANGED parseVars
    /\ UNCHANGED runVars
    /\ UNCHANGED memo

\* lines 68-99: the loop test holds and the body runs once
LoopStep ==
    /\ pc = "loop"
    /\ LoopTest(w, tx_pos)
    /\ iters < MaxIters
    /\ w' = Body(w, cigar)
    /\ warned' = (warned \/ BodyWarns(w, tx_pos))
    /\ iters' = iters + 1
    /\ UNCHANGED <<cigar, cigar_str, mapping_start_pos, tx_pos, pc, tx_length, outcome, result>>
    /\ UNCHANGED parseVars
    /\ UNCHANGED runVars
    /\ UNCHANGED memo

\* variant: returning consumes the first region of the object's list
Return_DropsRegion ==
    /\ pc = "loop"
    /\ ~LoopTest(w, tx_pos)
    /\ result' = w.curr_pos
    /\ outcome' = "returned"
    /\ pc' = "done"
    /\ cigar' = Tail(cigar)
    /\ UNCHANGED <<cigar_str, mapping_start_pos, tx_pos, w, tx_length, iters, warned>>
    /\ UNCHANGED parseVars
    /\ UNCHANGED runVars
    /\ UNCHANGED memo

\* lines 68 and 101: the loop test fails and curr_pos is returned
Return ==
    /\ pc = "loop"
    /\ ~LoopTest(w, tx_pos)
    /\ result' = w.curr_pos
    /\ outcome' = "returned"
    /\ pc' = "done"
    /\ UNCHANGED <<cigar, cigar_str, mapping_start_pos, tx_pos, w, tx_length, iters, warned>>
    /\ UNCHANGED parseVars
    /\ UNCHANGED runVars
    /\ UNCHANGED memo

(***************************************************************************)
(* __parse_cigar_str.  A string is a sequence of one-character strings.    *)
(***************************************************************************)
DigitChars == {"0", "1", "2", "3", "4", "5", "6", "7", "8", "9"}

\* the characters of the split pattern '[MDISH=X]' (line 23)
Separators == {"M", "D", "I", "S", "H", "=", "X"}

\* the characters of the model's alphabet for which str.isalpha() is true
Alpha == {"M", "D", "I", "S", "H", "X", "N"}

Alphabet == {"0", "1", "2", "M", "D", "I", "S", "H", "=", "X", "N"}

\* the docstring's example, '8M7D6M2I'
ExampleStr == <<"8", "M", "7", "D", "6", "M", "2", "I">>

Strings == SeqsUpTo(Alphabet, MaxStrLen) \cup {ExampleStr}

isalpha(ch) == ch \in Alpha

\* line 22
CharsOf(text) == SelectSeq(text, isalpha)

\* line 23: re.split('[MDISH=X]', s); a list of (possibly empty) pieces
RECURSIVE re_split(_)
re_split(text) ==
    IF text = <<>> THEN << <<>> >>
    ELSE LET rest == re_split(Tail(text))
         IN  IF Head(text) \in Separators
             THEN << <<>> >> \o rest
             ELSE << <<Head(text)>> \o Head(rest) >> \o Tail(rest)

\* line 24: list.pop() removes the last element
pop(xs) == SubSeq(xs, 1, Len(xs) - 1)

DigitValue(ch) ==
    CASE ch = "0" -> 0 [] ch = "1" -> 1 [] ch = "2" -> 2 [] ch = "3" -> 3
      [] ch = "4" -> 4 [] ch = "5" -> 5 [] ch = "6" -> 6 [] ch = "7" -> 7
      [] ch = "8" -> 8 [] ch = "9" -> 9

\* int(piece) raises ValueError unless piece is a non-empty run of digits
IsIntLiteral(piece) ==
    Len(piece) >= 1 /\ \A i \in 1..Len(piece) : piece[i] \in DigitChars

RECURSIVE int(_)
int(piece) ==
    IF piece = <<>> THEN 0
    ELSE 10 * int(SubSeq(piece, 1, Len(piece) - 1)) + DigitValue(piece[Len(piece)])

\* zip stops at the shorter of its arguments
zip(xs, ys) ==
    LET n == IF Len(xs) <= Len(ys) THEN Len(xs) ELSE Len(ys)
    IN  [i \in 1..n |-> <<xs[i], ys[i]>>]

\* line 25: whether an int(i) raises ValueError
IntRaises(ints) == \E i \in 1..Len(ints) : ~IsIntLiteral(ints[i])

\* line 25: the list returned when no int(i) raises
ZipLine(ints, chars) == zip([i \in 1..Len(ints) |-> int(ints[i])], chars)

MapIdle ==
    /\ cigar = <<>>
    /\ cigar_str = <<>>
    /\ mapping_start_pos = 0
    /\ tx_pos = 0
    /\ pc = "off"
    /\ w = NoLocals
    /\ tx_length = -1
    /\ iters = 0
    /\ warned = FALSE
    /\ outcome = NoValue
    /\ result = -1

ParseIdle ==
    /\ s = <<>>
    /\ ppc = "off"
    /\ chars_list = <<>>
    /\ int_list = <<>>
    /\ parsed = <<>>
    /\ parse_outcome = NoValue

ParseInit ==
    /\ s \in Strings
    /\ ppc = "chars"
    /\ chars_list = <<>>
    /\ int_list = <<>>
    /\ parsed = <<>>
    /\ parse_outcome = NoValue

\* line 22
CollectChars ==
    /\ ppc = "chars"
    /\ chars_list' = CharsOf(s)
    /\ ppc' = "split"
    /\ UNCHANGED <<s, int_list, parsed, parse_outcome>>
    /\ UNCHANGED mapVars
    /\ UNCHANGED runVars
    /\ UNCHANGED memo

\* line 23
Split ==
    /\ ppc = "split"
    /\ int_list' = re_split(s)
    /\ ppc' = "pop"
    /\ UNCHANGED <<s, chars_list, parsed, parse_outcome>>
    /\ UNCHANGED mapVars
    /\ UNCHANGED runVars
    /\ UNCHANGED memo

\* line 24
Pop ==
    /\ ppc = "pop"
    /\ int_list' = pop(int_list)
    /\ ppc' = "zip"
    /\ UNCHANGED <<s, chars_list, parsed, parse_outcome>>
    /\ UNCHANGED mapVars
    /\ UNCHANGED runVars
    /\ UNCHANGED memo

\* line 25
Zip ==
    /\ ppc = "zip"
    /\ IF IntRaises(int_list)
       THEN /\ parse_outcome' = "ValueError"
            /\ parsed' = parsed
       ELSE /\ parse_outcome' = "returned"
            /\ parsed' = ZipLine(int_list, chars_list)
    /\ ppc' = "done"
    /\ UNCHANGED <<s, chars_list, int_list>>
    /\ UNCHANGED mapVars
    /\ UNCHANGED runVars
    /\ UNCHANGED memo

(***************************************************************************)
(* run and get_coordinate_mapping.  A line of the queries file, a field    *)
(* and a line of the output file are strings: sequences of one-character   *)
(* strings.  df_transcripts is a function from tx_id to a record.          *)
(***************************************************************************)
TAB == "\t"

NL == "\n"

\* the characters of the model for which str.isspace() is true
Whitespace == {TAB, NL, " "}

RECURSIVE lstrip(_)
lstrip(text) ==
    IF text # <<>> /\ Head(text) \in Whitespace THEN lstrip(Tail(text)) ELSE text

RECURSIVE rstrip(_)
rstrip(text) ==
    IF text # <<>> /\ text[Len(text)] \in Whitespace
    THEN rstrip(SubSeq(text, 1, Len(text) - 1))
    ELSE text

\* str.strip()
strip(text) == rstrip(lstrip(text))

\* str.split(sep): a list of (possibly empty) fields
RECURSIVE split(_, _)
split(text, sep) ==
    IF text = <<>> THEN << <<>> >>
    ELSE LET rest == split(Tail(text), sep)
         IN  IF Head(text) = sep
             THEN << <<>> >> \o rest
             ELSE << <<Head(text)>> \o Head(rest) >> \o Tail(rest)

\* sep.join(list)
RECURSIVE join(_, _)
join(sep, list) ==
    IF list = <<>> THEN <<>>
    ELSE IF Len(list) = 1 THEN Head(list)
    ELSE Head(list) \o <<sep>> \o join(sep, Tail(list))

\* int(tx_pos) of a field: an optional sign, then a run of digits
IsSignedLiteral(field) ==
    \/ IsIntLiteral(field)
    \/ Len(field) >= 2 /\ field[1] \in {"-", "+"} /\ IsIntLiteral(Tail(field))

signed_int(field) ==
    IF field[1] = "-" THEN 0 - int(Tail(field))
    ELSE IF field[1] = "+" THEN int(Tail(field))
    ELSE int(field)

TR1 == <<"T", "R", "1">>

TR2 == <<"T", "R", "2">>

\* a transcript id that df_transcripts does not hold
TR9 == <<"T", "R", "9">>

\* the transcripts file: tx_id -> chrom_id, mapping_start_pos, CIGAR_str
df_transcripts ==
    [tx_id \in {TR1, TR2} |->
        IF tx_id = TR1
        THEN [chrom_id |-> <<"C", "H", "R", "1">>, mapping_start_pos |-> 3,
              CIGAR_str |-> <<"8", "M", "7", "D", "6", "M", "2", "I",
                              "2", "M", "1", "1", "D", "7", "M">>]
        ELSE [chrom_id |-> <<"C", "H", "R", "2">>, mapping_start_pos |-> 10,
              CIGAR_str |-> <<"2", "0", "M">>]]

\* the lines a queries file of the model is made of
QueryLines ==
    { join(TAB, <<TR1, <<"0">>>>) \o <<NL>>,
      join(TAB, <<TR1, <<"1", "3">>>>) \o <<NL>>,
      join(TAB, <<TR2, <<"1", "0">>>>) \o <<NL>>,
      join(TAB, <<TR9, <<"0">>>>) \o <<NL>>,
      join(TAB, <<TR2, <<"9", "9">>>>) \o <<NL>>,
      join(TAB, <<TR1, <<"-", "1">>>>) \o <<NL>>,
      join(TAB, <<TR1, <<"x">>>>) \o <<NL>>,
      TR1 \o <<NL>>,
      join(TAB, <<TR1, <<"0">>, <<"1">>>>) \o <<NL>>,
      <<NL>> }

QueryFiles == SeqsUpTo(QueryLines, MaxQueries)

NoChrom == [chrom_id |-> <<>>, chrom_pos |-> -1]

\* no earlier call is remembered
NoMemo ==
    [set |-> FALSE, cigar |-> <<>>, cigar_str |-> <<>>, mapping_start_pos |-> -1,
     tx_pos |-> -1, outcome |-> NoValue, result |-> -1, warned |-> FALSE,
     between |-> {}]

MemoIdle == memo = NoMemo

RunIdle ==
    /\ queries_file = <<>>
    /\ lines_read = 0
    /\ rpc = "off"
    /\ fields = <<>>
    /\ chrom = NoChrom
    /\ out_file = <<>>
    /\ run_outcome = NoValue

\* lines 128-129: both files are open, nothing is read or written yet
RunInit ==
    /\ queries_file \in QueryFiles
    /\ lines_read = 0
    /\ rpc = "for"
    /\ fields = <<>>
    /\ chrom = NoChrom
    /\ out_file = <<>>
    /\ run_outcome = "running"

\* the exception leaves run; the with blocks close the files
Raise(exc) ==
    /\ rpc' = "raised"
    /\ run_outcome' = exc

\* line 130: the for loop takes the next line
NextLine ==
    /\ rpc = "for"
    /\ lines_read < Len(queries_file)
    /\ lines_read' = lines_read + 1
    /\ rpc' = "split"
    /\ UNCHANGED <<queries_file, fields, chrom, out_file, run_outcome>>
    /\ UNCHANGED mapVars
    /\ UNCHANGED parseVars
    /\ UNCHANGED memo

\* variant: a line that does not unpack is skipped and the loop goes on
SplitLine_SkipsLine ==
    /\ rpc = "split"
    /\ LET values == split(strip(queries_file[lines_read]), TAB)
       IN  IF Len(values) # 2
           THEN /\ fields' = fields
                /\ rpc' = "for"
                /\ run_outcome' = run_outcome
           ELSE /\ fields' = values
                /\ rpc' = "call"
                /\ run_outcome' = run_outcome
    /\ UNCHANGED <<queries_file, lines_read, chrom, out_file>>
    /\ UNCHANGED mapVars
    /\ UNCHANGED parseVars
    /\ UNCHANGED memo

\* lines 131-135: unpacking anything but two fields raises ValueError,
\* which is printed and raised again
SplitLine ==
    /\ rpc = "split"
    /\ LET values == split(strip(queries_file[lines_read]), TAB)
       IN  IF Len(values) # 2
           THEN Raise("ValueError") /\ fields' = fields
           ELSE /\ fields' = values
                /\ rpc' = "call"
                /\ run_outcome' = run_outcome
    /\ UNCHANGED <<queries_file, lines_read, chrom, out_file>>
    /\ UNCHANGED mapVars
    /\ UNCHANGED parseVars
    /\ UNCHANGED memo

\* variant: a KeyError of the lookup is caught and the loop goes on
GetMapping_SwallowsKeyError ==
    /\ rpc = "call"
    /\ LET tx_id == fields[1]
           pieces(m) == pop(re_split(m.CIGAR_str))
           regions(m) == ZipLine(pieces(m), CharsOf(m.CIGAR_str))
       IN  IF ~IsSignedLiteral(fields[2])
           THEN Raise("ValueError") /\ chrom' = chrom
           ELSE IF tx_id \notin DOMAIN df_transcripts
           THEN /\ chrom' = chrom
                /\ rpc' = "for"
                /\ run_outcome' = run_outcome
           ELSE IF IntRaises(pieces(df_transcripts[tx_id]))
           THEN Raise("ValueError") /\ chrom' = chrom
           ELSE IF OutOfBounds(regions(df_transcripts[tx_id]), signed_int(fields[2]))
           THEN Raise("ValueError") /\ chrom' = chrom
           ELSE /\ chrom' = [chrom_id |-> df_transcripts[tx_id].chrom_id,
                             chrom_pos |-> Returned(regions(df_transcripts[tx_id]),
                                                    signed_int(fields[2]),
                                                    df_transcripts[tx_id].mapping_start_pos)]
                /\ rpc' = "write"
                /\ run_outcome' = run_outcome
    /\ UNCHANGED <<queries_file, lines_read, fields, out_file>>
    /\ UNCHANGED mapVars
    /\ UNCHANGED parseVars
    /\ UNCHANGED memo

\* line 136 and get_coordinate_mapping (lines 152-160): int(tx_pos), the
\* lookup (KeyError is printed and raised again), CIGARString(...) and
\* map_coordinate; no exception is caught in run
GetMapping ==
    /\ rpc = "call"
    /\ LET tx_id == fields[1]
           pieces(m) == pop(re_split(m.CIGAR_str))
           regions(m) == ZipLine(pieces(m), CharsOf(m.CIGAR_str))
       IN  IF ~IsSignedLiteral(fields[2])
           THEN Raise("ValueError") /\ chrom' = chrom
           ELSE IF tx_id \notin DOMAIN df_transcripts
           THEN Raise("KeyError") /\ chrom' = chrom
           ELSE IF IntRaises(pieces(df_transcripts[tx_id]))
           THEN Raise("ValueError") /\ chrom' = chrom
           ELSE IF OutOfBounds(regions(df_transcripts[tx_id]), signed_int(fields[2]))
           THEN Raise("ValueError") /\ chrom' = chrom
           ELSE /\ chrom' = [chrom_id |-> df_transcripts[tx_id].chrom_id,
                             chrom_pos |-> Returned(regions(df_transcripts[tx_id]),
                                                    signed_int(fields[2]),
                                                    df_transcripts[tx_id].mapping_start_pos)]
                /\ rpc' = "write"
                /\ run_outcome' = run_outcome
    /\ UNCHANGED <<queries_file, lines_read, fields, out_file>>
    /\ UNCHANGED mapVars
    /\ UNCHANGED parseVars
    /\ UNCHANGED memo

\* line 137: the output line of the query
OutputLine(tx_id, pos, chrom_id, chrom_pos) ==
    join(TAB, <<tx_id, pos, chrom_id, str(chrom_pos)>>) \o <<NL>>

\* line 137
WriteLine ==
    /\ rpc = "write"
    /\ out_file' = Append(out_file,
                          OutputLine(fields[1], fields[2], chrom.chrom_id, chrom.chrom_pos))
    /\ rpc' = "for"
    /\ UNCHANGED <<queries_file, lines_read, fields, chrom, run_outcome>>
    /\ UNCHANGED mapVars
    /\ UNCHANGED parseVars
    /\ UNCHANGED memo

\* line 138: the queries file is exhausted, run returns
Finish ==
    /\ rpc = "for"
    /\ lines_read = Len(queries_file)
    /\ rpc' = "finished"
    /\ run_outcome' = "returned"
    /\ UNCHANGED <<queries_file, lines_read, fields, chrom, out_file>>
    /\ UNCHANGED mapVars
    /\ UNCHANGED parseVars
    /\ UNCHANGED memo

(***************************************************************************)
(* Definitions the properties are stated with.  They follow the            *)
(* specification's data model, not the code.                               *)
(***************************************************************************)
OnlyMDI(c) == \A i \in 1..Len(c) : c[i][2] \in MDI

NoInsertion(c) == \A i \in 1..Len(c) : c[i][2] # "I"

LengthsPositive(c) == \A i \in 1..Len(c) : c[i][1] >= 1

\* TranscriptLength: the sum of length over the Match and Insertion regions
RECURSIVE TranscriptLength(_)
TranscriptLength(c) ==
    IF c = <<>> THEN 0
    ELSE (IF Head(c)[2] = "M" \/ Head(c)[2] = "I" THEN Head(c)[1] ELSE 0)
             + TranscriptLength(Tail(c))

\* Per-base alignment of transcript position p, scanning from region i with
\* t transcript bases and g genomic bases consumed: the type of the region
\* that holds p and the genomic bases that precede p.
RECURSIVE PerBase(_, _, _, _, _)
PerBase(c, i, t, g, p) ==
    IF i > Len(c) THEN [type |-> "none", offset |-> g]
    ELSE LET len == c[i][1]
             ty == c[i][2]
         IN  IF ty = "M"
             THEN IF p < t + len
                  THEN [type |-> "M", offset |-> g + (p - t)]
                  ELSE PerBase(c, i + 1, t + len, g + len, p)
             ELSE IF ty = "D"
             THEN PerBase(c, i + 1, t, g + len, p)
             ELSE IF ty = "I"
             THEN IF p < t + len
                  THEN [type |-> "I", offset |-> g]
                  ELSE PerBase(c, i + 1, t + len, g, p)
             ELSE [type |-> "other", offset |-> g]

TypeAt(c, p) == PerBase(c, 1, 0, 0, p).type

ReferenceCoordinate(c, p, start) == start + PerBase(c, 1, 0, 0, p).offset

InBounds(c, p) == 0 <= p /\ p < TranscriptLength(c)

Finished == pc = "done"

(***************************************************************************)
(* C1: for an encoding of Match, Deletion and Insertion regions of length  *)
(* >= 1 and a valid transcript position in a Match region, map_coordinate  *)
(* returns the per-base reference coordinate: the start plus the lengths   *)
(* of the Match and Deletion regions before the position's region plus the *)
(* offset of the position in its region.                                   *)
(***************************************************************************)
C1_PerBaseCoordinate ==
    (/\ Finished
     /\ OnlyMDI(cigar)
     /\ LengthsPositive(cigar)
     /\ InBounds(cigar, tx_pos)
     /\ TypeAt(cigar, tx_pos) = "M")
        => (/\ outcome = "returned"
            /\ result = ReferenceCoordinate(cigar, tx_pos, mapping_start_pos))

(***************************************************************************)
(* C2: map_coordinate raises the out-of-bounds ValueError, and returns no  *)
(* coordinate, exactly when tx_pos < 0 or tx_pos >= TranscriptLength; a    *)
(* position out of range is never mapped as if it were in range.           *)
(***************************************************************************)
C2_OutOfBoundsExactly ==
    Finished =>
        /\ (outcome = "ValueError") <=> ~InBounds(cigar, tx_pos)
        /\ (outcome = "ValueError") => (result = -1 /\ iters = 0)
        /\ (outcome = "returned") => (result >= mapping_start_pos)

C2_Witness ==
    /\ Finished
    /\ outcome = "ValueError"
    /\ tx_pos = TranscriptLength(cigar)
    /\ tx_pos >= 1
    /\ mapping_start_pos = 10

OnExample2M2I2M ==
    Finished /\ cigar = Example2M2I2M /\ mapping_start_pos = 10 /\ tx_pos \in 0..5

(***************************************************************************)
(* C3: on "2M2I2M" with mapping start 10.  As claimed: positions 2 and 3   *)
(* warn and return 13, position 0 returns 10, 1 returns 11, 4 returns 13   *)
(* and 5 returns 14.                                                       *)
(***************************************************************************)
C3_AsClaimed ==
    OnExample2M2I2M =>
        /\ outcome = "returned"
        /\ tx_pos = 0 => result = 10
        /\ tx_pos = 1 => result = 11
        /\ tx_pos \in {2, 3} => (warned /\ result = 13)
        /\ tx_pos = 4 => result = 13
        /\ tx_pos = 5 => result = 14

(***************************************************************************)
(* C3, amended: on "2M2I2M" with mapping start 10, positions 2 and 3 warn  *)
(* and return 12 (the coordinate of the first base after the insertion),   *)
(* position 0 returns 10, 1 returns 11, 4 returns 12 and 5 returns 13.     *)
(***************************************************************************)
C3_Example2M2I2M ==
    OnExample2M2I2M =>
        /\ outcome = "returned"
        /\ tx_pos = 0 => result = 10
        /\ tx_pos = 1 => result = 11
        /\ tx_pos \in {2, 3} => (warned /\ result = 12)
        /\ tx_pos = 4 => result = 12
        /\ tx_pos = 5 => result = 13

C3_Witness == OnExample2M2I2M /\ tx_pos = 3 /\ warned /\ result = 12

DeletionThenMatch(c) ==
    Len(c) >= 2 /\ c[1][2] = "D" /\ c[2][2] = "M" /\ c[2][1] >= 1

BeginsWithMatch(c) == Len(c) >= 1 /\ c[1][2] = "M"

(***************************************************************************)
(* C5: an encoding that begins with a Match region.  As claimed:           *)
(* map_coordinate(0, start) returns start and the loop body runs zero      *)
(* times, for any such encoding.                                           *)
(***************************************************************************)
C5_AsClaimed ==
    (Finished /\ BeginsWithMatch(cigar) /\ tx_pos = 0)
        => (outcome = "returned" /\ result = mapping_start_pos /\ iters = 0)

(***************************************************************************)
(* C5, amended: for an encoding that begins with a Match region and whose  *)
(* transcript length is at least 1 (position 0 is in bounds),              *)
(* map_coordinate(0, start) returns start and the loop body runs zero      *)
(* times.                                                                  *)
(***************************************************************************)
C5_PositionZero ==
    (Finished /\ BeginsWithMatch(cigar) /\ TranscriptLength(cigar) >= 1 /\ tx_pos = 0)
        => (outcome = "returned" /\ result = mapping_start_pos /\ iters = 0)

C5_Witness ==
    /\ Finished
    /\ BeginsWithMatch(cigar)
    /\ Len(cigar) = 3
    /\ tx_pos = 0
    /\ mapping_start_pos = 10
    /\ result = 10
    /\ iters = 0

(***************************************************************************)
(* C6: when the first region is a Match of length L, every position p with *)
(* 0 <= p < L maps to start + p; "8M7D6M2I2M11D7M" with start 3 maps       *)
(* position 4 to 7.                                                        *)
(***************************************************************************)
C6_FirstMatchRegion ==
    /\ (Finished /\ BeginsWithMatch(cigar) /\ 0 <= tx_pos /\ tx_pos < cigar[1][1])
           => (outcome = "returned" /\ result = mapping_start_pos + tx_pos)
    /\ (Finished /\ cigar = Example8M /\ mapping_start_pos = 3 /\ tx_pos = 4)
           => (outcome = "returned" /\ result = 7)

C6_Witness ==
    /\ Finished
    /\ cigar = Example8M
    /\ mapping_start_pos = 3
    /\ tx_pos = 4
    /\ result = 7

(***************************************************************************)
(* C7: monotonicity.  For an encoding with no Insertion region and         *)
(* consecutive valid positions p and p + 1, map_coordinate(p + 1, start)   *)
(* is at least map_coordinate(p, start).                                   *)
(***************************************************************************)
C7_Monotonic ==
    (/\ Finished
     /\ NoInsertion(cigar)
     /\ InBounds(cigar, tx_pos)
     /\ InBounds(cigar, tx_pos + 1))
        => (/\ outcome = "returned"
            /\ Returned(cigar, tx_pos + 1, mapping_start_pos) >= result)

\* a deletion lies between p and p + 1
C7_Witness ==
    /\ Finished
    /\ NoInsertion(cigar)
    /\ InBounds(cigar, tx_pos)
    /\ InBounds(cigar, tx_pos + 1)
    /\ outcome = "returned"
    /\ Returned(cigar, tx_pos + 1, mapping_start_pos) > result + 2

\* get_tx_length() has returned to the current call
LengthTaken == pc \in {"init", "loop", "done"}

(***************************************************************************)
(* C9: get_tx_length returns the sum of length over the Match and          *)
(* Insertion regions; Deletion regions and regions of every other type     *)
(* add 0.  The transcript length of "8M7D6M2I2M11D7M" is 25.               *)
(***************************************************************************)
C9_TranscriptLength ==
    /\ LengthTaken => tx_length = TranscriptLength(cigar)
    /\ (LengthTaken /\ cigar = Example8M) => tx_length = 25

\* a Deletion and a region of another type beside the Match region counted
C9_Witness ==
    /\ LengthTaken
    /\ Len(cigar) = 2
    /\ cigar[1] = <<2, "M">>
    /\ cigar[2][2] \in {"D", "S"}
    /\ cigar[2][1] = 1
    /\ tx_length = 2

Init == MapInit /\ ParseIdle /\ RunIdle /\ MemoIdle

Next ==
    \/ Call
    \/ CheckBounds
    \/ InitWalk
    \/ LoopStep
    \/ Return

Spec == Init /\ [][Next]_vars

FairInit == MapInitOf(MDIRecords) /\ ParseIdle /\ RunIdle /\ MemoIdle

\* A call that has started runs to its end: the method is sequential code
\* and nothing in it waits.  Callers need not call.  The encodings are those
\* of Match, Deletion and Insertion regions.
FairSpec ==
    /\ FairInit
    /\ [][Next]_vars
    /\ WF_vars(CheckBounds)
    /\ WF_vars(InitWalk)
    /\ WF_vars(LoopStep)
    /\ WF_vars(Return)

\* the sum of length over the Deletion regions
RECURSIVE TotalDeletionAdjustment(_)
TotalDeletionAdjustment(c) ==
    IF c = <<>> THEN 0
    ELSE (IF Head(c)[2] = "D" THEN Head(c)[1] ELSE 0) + TotalDeletionAdjustment(Tail(c))

ValidMDICall == OnlyMDI(cigar) /\ InBounds(cigar, tx_pos)

(***************************************************************************)
(* C8: for an encoding of Match, Deletion and Insertion regions and a      *)
(* position in [0, TranscriptLength), map_coordinate terminates (the loop  *)
(* body runs at most tx_pos times, each run increasing tx_ix), raises no   *)
(* exception and returns an integer that is at least the mapping start     *)
(* minus the total deletion adjustment; the walk never decreases the       *)
(* genomic position, so the result is at least the mapping start itself.   *)
(***************************************************************************)
C8_TerminatesAboveBound ==
    /\ []((ValidMDICall /\ Finished) =>
              (/\ outcome = "returned"
               /\ result >= mapping_start_pos - TotalDeletionAdjustment(cigar)
               /\ result >= mapping_start_pos))
    /\ []((ValidMDICall /\ pc = "loop") => iters <= tx_pos)
    /\ [][(ValidMDICall /\ pc = "loop" /\ pc' = "loop") =>
              (w'.curr_pos >= w.curr_pos /\ w'.tx_ix > w.tx_ix)]_vars
    /\ ((ValidMDICall /\ pc = "check") ~> Finished)

\* a walk of several loop bodies that crossed a deletion
C8_Witness ==
    /\ Finished
    /\ ValidMDICall
    /\ outcome = "returned"
    /\ iters >= 3
    /\ TotalDeletionAdjustment(cigar) >= 1
    /\ result > mapping_start_pos + tx_pos

ParserInit == MapIdle /\ ParseInit /\ RunIdle /\ MemoIdle

ParserNext ==
    \/ CollectChars
    \/ Split
    \/ Pop
    \/ Zip

ParserSpec == ParserInit /\ [][ParserNext]_vars

\* The tokens of text read left to right, digits being the digits of the
\* token under way: whether text is one or more <integer><symbol> tokens, and
\* the regions of the tokens read.
RECURSIVE Tokens(_, _, _)
Tokens(text, digits, acc) ==
    IF text = <<>>
    THEN [ok |-> digits = <<>> /\ acc # <<>>, regions |-> acc]
    ELSE IF Head(text) \in DigitChars
    THEN Tokens(Tail(text), Append(digits, Head(text)), acc)
    ELSE IF Head(text) \in Separators /\ digits # <<>>
    THEN Tokens(Tail(text), <<>>, Append(acc, <<int(digits), Head(text)>>))
    ELSE [ok |-> FALSE, regions |-> acc]

TokenString(text) == Tokens(text, <<>>, <<>>).ok

TokenRegions(text) == Tokens(text, <<>>, <<>>).regions

(***************************************************************************)
(* C10: for a string that is one or more <integer><symbol> tokens, the     *)
(* symbol one of M, D, I, S, H, =, X, the parser returns one region per    *)
(* token, in order, each length with the symbol of its own token;          *)
(* "8M7D6M2I" gives [(8,M),(7,D),(6,M),(2,I)].                             *)
(***************************************************************************)
C10_OneRegionPerToken ==
    /\ (ppc = "done" /\ TokenString(s))
           => (parse_outcome = "returned" /\ parsed = TokenRegions(s))
    /\ (ppc = "done" /\ s = ExampleStr)
           => parsed = <<<<8, "M">>, <<7, "D">>, <<6, "M">>, <<2, "I">>>>

\* the three shapes of malformed string the specification names
TrailingDigits(text) == text # <<>> /\ text[Len(text)] \in DigitChars

UnrecognizedSymbol(text) ==
    \E i \in 1..Len(text) : text[i] \notin DigitChars \cup Separators

(***************************************************************************)
(* C11: the parser fails (MalformedEncoding) and produces no region        *)
(* sequence for a string with trailing digits and no terminating symbol    *)
(* ("8M7"), for the empty string and for a string that holds an            *)
(* unrecognized operation symbol.                                          *)
(***************************************************************************)
C11_MalformedFails ==
    (/\ ppc = "done"
     /\ (s = <<>> \/ TrailingDigits(s) \/ UnrecognizedSymbol(s)))
        => (parse_outcome # "returned" /\ parsed = <<>>)

(***************************************************************************)
(* The specification of run: one queries file, read to its end or to the   *)
(* first exception.                                                        *)
(***************************************************************************)
RunSpecInit == MapIdle /\ ParseIdle /\ RunInit /\ MemoIdle

RunNext ==
    \/ NextLine
    \/ SplitLine
    \/ GetMapping
    \/ WriteLine
    \/ Finish

RunSpec == RunSpecInit /\ [][RunNext]_vars

\* the fields of a line of the queries or of the output file
FieldsOf(line) == split(strip(line), TAB)

\* a query line splits into exactly two tab-separated fields
TwoFields(line) == Len(FieldsOf(line)) = 2

\* a query line whose position is an integer and whose id is not in the table
NotFoundLine(line) ==
    /\ TwoFields(line)
    /\ IsSignedLiteral(FieldsOf(line)[2])
    /\ FieldsOf(line)[1] \notin DOMAIN df_transcripts

\* a query line that names a transcript of the table and a position in it
Mappable(line) ==
    /\ TwoFields(line)
    /\ IsSignedLiteral(FieldsOf(line)[2])
    /\ FieldsOf(line)[1] \in DOMAIN df_transcripts
    /\ LET m == df_transcripts[FieldsOf(line)[1]]
       IN  /\ TokenString(m.CIGAR_str)
           /\ InBounds(TokenRegions(m.CIGAR_str), signed_int(FieldsOf(line)[2]))

\* output line k answers query line j: it repeats the two fields of the query
Answers(k, j) ==
    /\ Len(FieldsOf(out_file[k])) = 4
    /\ SubSeq(FieldsOf(out_file[k]), 1, 2) = FieldsOf(queries_file[j])

\* run is over: it returned or an exception left it
RunOver == rpc \in {"raised", "finished"}

\* line i has passed the lookup of get_coordinate_mapping
LookedUp(i) == i < lines_read \/ (i = lines_read /\ rpc \notin {"split", "call"})

\* line i has passed the unpacking of line 132
Unpacked(i) == i < lines_read \/ (i = lines_read /\ rpc # "split")

(***************************************************************************)
(* C12: a query line whose transcript id is absent from the table.  As     *)
(* claimed: the KeyError ends the processing of that line only, and the    *)
(* lines that follow it are still processed and their output lines         *)
(* written.                                                                *)
(***************************************************************************)
C12_AsClaimed ==
    (RunOver /\ run_outcome = "KeyError")
        => \A j \in (lines_read + 1)..Len(queries_file) :
               Mappable(queries_file[j])
                   => \E k \in lines_read..Len(out_file) : Answers(k, j)

(***************************************************************************)
(* C12, as the code has it: the KeyError of a query line whose transcript  *)
(* id is absent leaves run (it is never swallowed) and ends the whole run: *)
(* run takes no further step, no output line is written for that line or   *)
(* for any line after it, and every line before it has its output line.    *)
(***************************************************************************)
C12_NotFoundAbortsRun ==
    \A i \in 1..Len(queries_file) :
        (NotFoundLine(queries_file[i]) /\ LookedUp(i))
            => /\ rpc = "raised"
               /\ run_outcome = "KeyError"
               /\ ~ENABLED RunNext
               /\ lines_read = i
               /\ Len(out_file) = i - 1
               /\ \A k \in 1..(i - 1) : Answers(k, k)

C12_Witness ==
    /\ rpc = "raised"
    /\ run_outcome = "KeyError"
    /\ lines_read >= 2
    /\ lines_read < Len(queries_file)
    /\ NotFoundLine(queries_file[lines_read])
    /\ Mappable(queries_file[lines_read + 1])
    /\ Len(out_file) = lines_read - 1

(***************************************************************************)
(* C13: a query line that does not split into exactly two tab-separated    *)
(* fields is fatal for the whole run: run raises ValueError and takes no   *)
(* further step, no output line is written for that line or for any line   *)
(* after it, and every line before it has produced exactly one output      *)
(* line, in input order.                                                   *)
(***************************************************************************)
C13_FormatErrorIsFatal ==
    \A i \in 1..Len(queries_file) :
        (~TwoFields(queries_file[i]) /\ Unpacked(i))
            => /\ rpc = "raised"
               /\ run_outcome = "ValueError"
               /\ ~ENABLED RunNext
               /\ lines_read = i
               /\ Len(out_file) = i - 1
               /\ \A k \in 1..(i - 1) : Answers(k, k)

C13_Witness ==
    /\ rpc = "raised"
    /\ run_outcome = "ValueError"
    /\ lines_read >= 2
    /\ lines_read < Len(queries_file)
    /\ ~TwoFields(queries_file[lines_read])
    /\ Mappable(queries_file[lines_read + 1])
    /\ Len(out_file) = lines_read - 1

(***************************************************************************)
(* Calls on one object, with an observer that remembers one finished call  *)
(* (the object's fields, the arguments and what the call produced) and     *)
(* notes the kinds of the calls with another position that finish after    *)
(* it.  The observer reads the program's state and never writes it.        *)
(***************************************************************************)
RepeatRecords ==
    (SeqsUpTo(Regions, MaxRepeatRegions) \cup {Example2M2I2M, Example5D10M}) \X Starts

\* the kind of the finished call
Kind ==
    IF outcome = "ValueError" THEN "out-of-bounds"
    ELSE IF warned THEN "insertion-ambiguous"
    ELSE "valid"

Kinds == {"valid", "out-of-bounds", "insertion-ambiguous"}

Remember ==
    /\ pc = "done"
    /\ ~memo.set
    /\ memo' = [set |-> TRUE, cigar |-> cigar, cigar_str |-> cigar_str,
                mapping_start_pos |-> mapping_start_pos, tx_pos |-> tx_pos,
                outcome |-> outcome, result |-> result, warned |-> warned,
                between |-> {}]
    /\ UNCHANGED mapVars
    /\ UNCHANGED parseVars
    /\ UNCHANGED runVars

NoteOther ==
    /\ pc = "done"
    /\ memo.set
    /\ tx_pos # memo.tx_pos
    /\ Kind \notin memo.between
    /\ memo' = [memo EXCEPT !.between = @ \cup {Kind}]
    /\ UNCHANGED mapVars
    /\ UNCHANGED parseVars
    /\ UNCHANGED runVars

RepeatInit == MapInitOf(RepeatRecords) /\ ParseIdle /\ RunIdle /\ MemoIdle

RepeatNext ==
    \/ Call
    \/ CheckBounds
    \/ InitWalk
    \/ LoopStep
    \/ Return
    \/ Remember
    \/ NoteOther

RepeatSpec == RepeatInit /\ [][RepeatNext]_vars

(***************************************************************************)
(* C14: map_coordinate holds no state between calls.  After any calls on   *)
(* the object, the region list and the encoding string are the ones an     *)
(* earlier call found, and a finished call with the position of an         *)
(* earlier call has the same outcome, the same return value and the same   *)
(* warning as that call, whatever calls (valid, out-of-bounds or           *)
(* insertion-ambiguous) finished in between.                               *)
(***************************************************************************)
C14_NoStateBetweenCalls ==
    memo.set
        => /\ cigar = memo.cigar
           /\ cigar_str = memo.cigar_str
           /\ mapping_start_pos = memo.mapping_start_pos
           /\ (Finished /\ tx_pos = memo.tx_pos)
                  => /\ outcome = memo.outcome
                     /\ result = memo.result
                     /\ warned = memo.warned

\* a call repeated after calls of all three kinds, itself insertion-ambiguous
C14_Witness ==
    /\ memo.set
    /\ Finished
    /\ tx_pos = memo.tx_pos
    /\ memo.between = Kinds
    /\ outcome = "returned"
    /\ warned

(***************************************************************************)
(* C15: on an encoding of Match, Deletion and Insertion regions a call     *)
(* that returns has warned exactly when the queried position lies inside   *)
(* an Insertion region: it warns for every position inside an Insertion    *)
(* and for no position inside a Match.                                     *)
(***************************************************************************)
C15_WarnsExactlyInsideInsertion ==
    (/\ Finished
     /\ OnlyMDI(cigar)
     /\ LengthsPositive(cigar)
     /\ InBounds(cigar, tx_pos))
        => (warned <=> TypeAt(cigar, tx_pos) = "I")

\* transcript positions that precede region i of c
TxBefore(c, i) == TranscriptLength(SubSeq(c, 1, i - 1))

\* position p lies inside region i of c, an Insertion followed by a Match
InsideInsertionBeforeMatch(c, i, p) ==
    /\ i < Len(c)
    /\ c[i][2] = "I"
    /\ c[i + 1][2] = "M"
    /\ TxBefore(c, i) <= p
    /\ p < TxBefore(c, i) + c[i][1]

(***************************************************************************)
(* C16: a call for a position inside an Insertion region that is followed  *)
(* by a Match region returns, and returns the coordinate that              *)
(* map_coordinate returns for the first transcript position after that     *)
(* insertion.                                                              *)
(***************************************************************************)
C16_RightClamped ==
    (Finished /\ OnlyMDI(cigar) /\ LengthsPositive(cigar))
        => \A i \in 1..Len(cigar) :
               InsideInsertionBeforeMatch(cigar, i, tx_pos)
                   => /\ outcome = "returned"
                      /\ result = Returned(cigar, TxBefore(cigar, i) + cigar[i][1],
                                           mapping_start_pos)

\* the walk is between two iterations in a Match region of length lo or
\* more that another region follows
InFollowedMatch(lo) ==
    /\ pc = "loop"
    /\ w.curr_region_type = "M"
    /\ w.curr_region_length >= lo
    /\ w.region_ix + 1 < Len(cigar)

\* the within-region index stays below the length, before and inside the
\* next iteration; reaching length - 1 flags the boundary, and the
\* iteration ends on the next region
BoundaryKept ==
    /\ w.within_region_ix <= w.curr_region_length - 1
    /\ LoopTest(w, tx_pos)
           => /\ Branch(w).within_region_ix <= w.curr_region_length - 1
              /\ Branch(w).within_region_ix = w.curr_region_length - 1
                     => /\ Branch(w).reached_end_of_region
                        /\ Body(w, cigar).region_ix = w.region_ix + 1
                        /\ Body(w, cigar).within_region_ix = 0

(***************************************************************************)
(* C17: while a Match region of length L >= 1 that another region follows  *)
(* is the active region, the within-region index never exceeds L - 1; the  *)
(* boundary is flagged when the index reaches L - 1 and the iteration      *)
(* after it runs on the next region.                                       *)
(***************************************************************************)
C17_MatchBoundary == InFollowedMatch(1) => BoundaryKept

\* the locals when a region of a type other than M, D, I became the active
\* region of the walk from l (or the locals at the return, if none did)
RECURSIVE WalkUntilOther(_, _, _)
WalkUntilOther(l, c, p) ==
    IF l.curr_region_type \notin MDI \/ ~LoopTest(l, p) THEN l
    ELSE WalkUntilOther(Body(l, c), c, p)

\* the locals when the current call's walk entered the region it is stuck in
Entered == WalkUntilOther(InitLocals(cigar, mapping_start_pos), cigar, tx_pos)

\* a region of type S, H or X is the active region ("=" is never the type
\* of a parsed region)
OtherActive == pc \in {"loop", "done"} /\ outcome # "ValueError"
                   /\ w.curr_region_type \notin MDI

(***************************************************************************)
(* C18: once a SoftClip, HardClip or Mismatch region is the active region  *)
(* the walk never advances past it: every remaining iteration leaves the   *)
(* region index, the region and the genomic position unchanged and adds 1  *)
(* to the transcript index, so the loop ends after tx_pos - tx_ix more     *)
(* iterations, and the call returns the coordinate held when the region    *)
(* was entered.                                                            *)
(***************************************************************************)
C18_StuckInOtherRegion ==
    OtherActive
        => /\ w.region_ix = Entered.region_ix
           /\ w.curr_pos = Entered.curr_pos
           /\ w.curr_region_type = Entered.curr_region_type
           /\ w.tx_ix >= Entered.tx_ix
           /\ (pc = "loop" /\ LoopTest(w, tx_pos))
                  => Body(w, cigar) = [w EXCEPT !.tx_ix = @ + 1]
           /\ (pc = "loop")
                  => LET end == RunLoop(w, cigar, tx_pos)
                     IN  /\ end.curr_pos = Entered.curr_pos
                         /\ end.region_ix = Entered.region_ix
                         /\ end.tx_ix = IF w.tx_ix < tx_pos THEN tx_pos ELSE w.tx_ix
           /\ (pc = "done") => (outcome = "returned" /\ result = Entered.curr_pos)

\* a call that entered such a region during the walk, ran two or more
\* iterations in it, and returned
C18_Witness ==
    /\ pc = "done"
    /\ outcome = "returned"
    /\ w.curr_region_type \in {"S", "H", "X"}
    /\ w.region_ix >= 1
    /\ w.tx_ix >= Entered.tx_ix + 2
    /\ result = Entered.curr_pos

\* the indices of a list of n elements (0-based, as the code indexes)
Indices(n) == 0..(n - 1)

(***************************************************************************)
(* C19: map_coordinate never reads the region list outside its bounds.     *)
(* Region 0 is read only after the bounds check has passed, and then the   *)
(* list is non-empty; an iteration reads only an index of the list, and    *)
(* none once the region index has moved past the last region, though the   *)
(* region index may keep growing.                                          *)
(***************************************************************************)
C19_NoReadOutOfBounds ==
    /\ outcome # "IndexError"
    /\ pc = "init" => (~OutOfBounds(cigar, tx_pos) /\ 0 \in Indices(Len(cigar)))
    /\ pc = "loop"
           => /\ w.region_ix >= 0
              /\ LoopTest(w, tx_pos)
                     => /\ RegionsRead(w, cigar) \subseteq Indices(Len(cigar))
                        /\ w.region_ix >= Len(cigar) => RegionsRead(w, cigar) = {}
                        /\ w.region_ix >= Len(cigar)
                               => Body(w, cigar).region_ix = w.region_ix + 1

\* an iteration is about to run with the region index past the last
\* region and still growing
C19_Witness ==
    /\ pc = "loop"
    /\ LoopTest(w, tx_pos)
    /\ w.region_ix > Len(cigar)
    /\ RegionsRead(w, cigar) = {}

====
